---- MODULE Spec2Model ----
(***************************************************************************)
(* Model of the AHCI bring-up code of src/drivers/ahci.c: check_type,      *)
(* probe_port, start_cmd, stop_cmd, port_rebase and init_ahci, run against *)
(* a register block (HBA ports) and a byte-addressed physical memory.      *)
(***************************************************************************)
EXTENDS Integers, Sequences, FiniteSets, TLC

(* ------------------------------------------------------------------ *)
(* Program constants                                                   *)
(* ------------------------------------------------------------------ *)
\* The signatures are uint32_t values that are only ever compared for equality.
\* Those with bit 31 set (0xEB140101, 0xC33C0101, 0x96690101) are written as the
\* 32-bit two's-complement integer with the same bits.
SATA_SIG_ATA == 257
SATA_SIG_ATAPI == -351010559
SATA_SIG_SEMB == -1019477759
SATA_SIG_PM == -1771503359

AHCI_DEV_NULL == 0
AHCI_DEV_SATA == 1
AHCI_DEV_SEMB == 2
AHCI_DEV_PM == 3
AHCI_DEV_SATAPI == 4

HBA_PORT_IPM_ACTIVE == 1
HBA_PORT_DET_PRESENT == 3

AHCI_BASE == 4194304

\* number of ports swept by the outer loops, and of command headers per port
NPORTS == 32
NSLOTS == 32

\* bits of the port command and status register
BIT_ST == 0
BIT_FRE == 4
BIT_FR == 14
BIT_CR == 15

\* lengths handed to memset
CLB_LEN == 1024
FB_LEN == 256
CTB_LEN == 256

(* ------------------------------------------------------------------ *)
(* Layout of the structures of drivers/ahci.h (the AHCI register and   *)
(* command-list layout): byte offsets inside hba_port_t and            *)
(* hba_cmd_header_t, and their sizes.                                  *)
(* ------------------------------------------------------------------ *)
PORT_SIZE == 128
HDR_SIZE == 32

RegNames == {"clb", "clbu", "fb", "fbu", "cmd", "sig", "ssts"}

RegOff(n) ==
    CASE n = "clb" -> 0
      [] n = "clbu" -> 4
      [] n = "fb" -> 8
      [] n = "fbu" -> 12
      [] n = "cmd" -> 24
      [] n = "sig" -> 36
      [] n = "ssts" -> 40

\* registers the adapter owns: software writes do not change them
ReadOnlyRegs == {"sig", "ssts"}

\* hba_cmd_header_t: dword 0 holds the flags (low half) and prdtl (high half),
\* dword 2 is ctba, dword 3 is ctbau
HDR_DW0 == 0
HDR_CTBA == 8
HDR_CTBAU == 12

(* ------------------------------------------------------------------ *)
(* Bounds of the model                                                 *)
(* ------------------------------------------------------------------ *)
\* how often the environment may rewrite the pi register during a sweep
MaxPiChanges == 1

\* the count of busy polls of one start_cmd / stop_cmd call stops here
MaxPolls == 2

\* the bit positions the checked ports-implemented masks are built from
MaskBits == {0, 2, 31}

Ports == 0 .. (NPORTS - 1)
Slots == 0 .. (NSLOTS - 1)

(* ------------------------------------------------------------------ *)
(* Bit arithmetic on register values                                  *)
(* ------------------------------------------------------------------ *)
Pow2(n) == 2 ^ n
Bit(x, n) == (x \div Pow2(n)) % 2
SetBit(x, n) == IF Bit(x, n) = 1 THEN x ELSE x + Pow2(n)
ClrBit(x, n) == IF Bit(x, n) = 1 THEN x - Pow2(n) ELSE x
Shl(x, n) == x * Pow2(n)
Shr(x, n) == x \div Pow2(n)

\* A value of the 32-bit ports-implemented register, and of its local copies,
\* is held as the set of the positions of its 1 bits.
Masks == SUBSET MaskBits

\* pi & 1
LowBit(mask) == 0 \in mask

\* pi >>= 1 on a uint32_t
ShrMask(mask) == {b - 1 : b \in mask \ {0}}

Implemented(mask) == mask \cap Ports

(* ------------------------------------------------------------------ *)
(* State                                                               *)
(* ------------------------------------------------------------------ *)
VARIABLES
    pi,          \* hba_addr->pi, the ports-implemented register
    regs,        \* hba_addr->ports[p].<register>
    mem,         \* physical memory written so far: dword address -> value
    initFill,    \* what every dword of memory not yet written reads as
    roRegs,      \* TRUE: the adapter ignores writes to its read-only registers
                 \* and status bits; FALSE: the register block is plain memory
    spill,       \* bytes written past the end of hba_addr->ports[]
    pc,          \* position of the caller in the code
    ret,         \* where the running start_cmd / stop_cmd returns to
    port,        \* the port argument of start_cmd / stop_cmd / check_type
    i,           \* loop index of port_rebase / probe_port
    lpi,         \* the local copy "pi" of port_rebase / probe_port
    slot,        \* the inner loop index of port_rebase (it shadows i)
    cmd_header,  \* the local cmd_header of port_rebase
    dt,          \* the last result of check_type
    log,         \* what kprintf has printed
    visited,     \* the ports probe_port has classified, in order
    piRead,      \* the value of pi probe_port copied at entry
    assigned,    \* the base addresses port_rebase has computed and stored
    piChanges,   \* how often the environment has rewritten pi
    polls,       \* busy polls the running start_cmd / stop_cmd has seen (capped)
    other        \* the locals of a second caller while it is not running

vars == <<pi, regs, mem, initFill, roRegs, spill, pc, ret, port, i, lpi, slot,
          cmd_header, dt, log, visited, piRead, assigned, piChanges, polls, other>>

hwVars == <<pi, regs, piChanges>>
memVars == <<mem, initFill, roRegs, spill>>
locVars == <<port, i, lpi, slot, cmd_header, dt>>
ghostVars == <<log, visited, piRead, assigned>>

(* ------------------------------------------------------------------ *)
(* Register block and memory accesses                                  *)
(* ------------------------------------------------------------------ *)
HwBits(x) == Bit(x, BIT_FR) * Pow2(BIT_FR) + Bit(x, BIT_CR) * Pow2(BIT_CR)

\* the value register n holds after software stores v over old
Stored(old, n, v) ==
    IF ~roRegs THEN v
    ELSE IF n \in ReadOnlyRegs THEN old
    ELSE IF n = "cmd" THEN (v - HwBits(v)) + HwBits(old)
    ELSE v

StoreReg(r, p, n, v) == [r EXCEPT ![p][n] = Stored(r[p][n], n, v)]

\* memset(&ports[p].<field at byte offset off>, 0, len): it runs over the
\* register block itself, from that field on, across the following ports
MemsetRegs(r, p, off, len) ==
    LET first == p * PORT_SIZE + off
        last == first + len
    IN [q \in Ports |->
          [n \in RegNames |->
              IF first <= q * PORT_SIZE + RegOff(n)
                  /\ q * PORT_SIZE + RegOff(n) < last
              THEN Stored(r[q][n], n, 0)
              ELSE r[q][n]]]

\* bytes of that memset that fall behind ports[NPORTS - 1]
SpillOf(p, off, len) ==
    LET over == p * PORT_SIZE + off + len - NPORTS * PORT_SIZE
    IN IF over > 0 THEN over ELSE 0

Max(a, b) == IF a >= b THEN a ELSE b

Load(m, a) == IF a \in DOMAIN m THEN m[a] ELSE initFill

Store(m, a, v) == [x \in (DOMAIN m) \cup {a} |-> IF x = a THEN v ELSE m[x]]

\* a 16-bit store into the high half of the dword at a
StoreHigh16(m, a, v) == Store(m, a, (Load(m, a) % 65536) + (v % 65536) * 65536)

\* memset((void *)a, 0, len) on memory, a and len dword multiples
MemsetMem(m, a, len) ==
    LET zeroed == {a + 4 * k : k \in 0 .. ((len \div 4) - 1)}
    IN [x \in (DOMAIN m) \cup zeroed |-> IF x \in zeroed THEN 0 ELSE m[x]]

Cmd(p) == regs[p]["cmd"]
ST(p) == Bit(Cmd(p), BIT_ST) = 1
FRE(p) == Bit(Cmd(p), BIT_FRE) = 1
FR(p) == Bit(Cmd(p), BIT_FR) = 1
CR(p) == Bit(Cmd(p), BIT_CR) = 1

Min(a, b) == IF a <= b THEN a ELSE b

(* ------------------------------------------------------------------ *)
(* The adapter: it owns FR and CR of every port.  The FIS-receive      *)
(* engine runs (FR) only while FRE is set and the command-list engine  *)
(* runs (CR) only while ST is set; once software has cleared the       *)
(* enable bit the adapter clears the running bit some time later.      *)
(* ------------------------------------------------------------------ *)
HwClearFR(p) ==
    /\ FR(p) /\ ~FRE(p)
    /\ regs' = [regs EXCEPT ![p]["cmd"] = ClrBit(@, BIT_FR)]
    /\ UNCHANGED <<other, pi, piChanges, memVars, pc, ret, locVars, ghostVars, polls>>

HwClearCR(p) ==
    /\ CR(p) /\ ~ST(p)
    /\ regs' = [regs EXCEPT ![p]["cmd"] = ClrBit(@, BIT_CR)]
    /\ UNCHANGED <<other, pi, piChanges, memVars, pc, ret, locVars, ghostVars, polls>>

HwSetFR(p) ==
    /\ FRE(p) /\ ~FR(p)
    /\ regs' = [regs EXCEPT ![p]["cmd"] = SetBit(@, BIT_FR)]
    /\ UNCHANGED <<other, pi, piChanges, memVars, pc, ret, locVars, ghostVars, polls>>

HwSetCR(p) ==
    /\ ST(p) /\ ~CR(p)
    /\ regs' = [regs EXCEPT ![p]["cmd"] = SetBit(@, BIT_CR)]
    /\ UNCHANGED <<other, pi, piChanges, memVars, pc, ret, locVars, ghostVars, polls>>

(* ------------------------------------------------------------------ *)
(* stop_cmd                                                            *)
(* ------------------------------------------------------------------ *)
StopPcs == {"stop_st", "stop_fre", "stop_fr", "stop_cr"}

\* the first write of stop_cmd with the mask not inverted, port->cmd &= 1
StopClearSTWrongMask ==
    /\ pc = "stop_st"
    /\ regs' = StoreReg(regs, port, "cmd", Bit(Cmd(port), BIT_ST))
    /\ pc' = "stop_fre"
    /\ UNCHANGED <<other, pi, piChanges, memVars, ret, locVars, ghostVars, polls>>

StopClearST ==
    /\ pc = "stop_st"
    /\ regs' = StoreReg(regs, port, "cmd", ClrBit(Cmd(port), BIT_ST))
    /\ pc' = "stop_fre"
    /\ UNCHANGED <<other, pi, piChanges, memVars, ret, locVars, ghostVars, polls>>

StopClearFRE ==
    /\ pc = "stop_fre"
    /\ regs' = StoreReg(regs, port, "cmd", ClrBit(Cmd(port), BIT_FRE))
    /\ pc' = "stop_fr"
    /\ UNCHANGED <<other, pi, piChanges, memVars, ret, locVars, ghostVars, polls>>

\* the two tests of the wait loop, each its own read of port->cmd
StopFRBusy == FR(port)

StopCRBusyNever == FALSE

StopCRBusy == CR(port)

StopPollFR ==
    /\ pc = "stop_fr"
    /\ IF StopFRBusy
       THEN pc' = "stop_fr" /\ polls' = Min(polls + 1, MaxPolls)
       ELSE pc' = "stop_cr" /\ polls' = polls
    /\ UNCHANGED <<other, hwVars, memVars, ret, locVars, ghostVars>>

StopPollCR ==
    /\ pc = "stop_cr"
    /\ IF StopCRBusy
       THEN pc' = "stop_fr" /\ polls' = Min(polls + 1, MaxPolls)
       ELSE pc' = ret /\ polls' = polls
    /\ UNCHANGED <<other, hwVars, memVars, ret, locVars, ghostVars>>

(* ------------------------------------------------------------------ *)
(* start_cmd                                                           *)
(* ------------------------------------------------------------------ *)
StartPcs == {"start_cr", "start_fre", "start_st"}

StartCRBusyNever == FALSE

\* the poll of start_cmd giving up after MaxPolls reads
StartCRBusyTimeout == CR(port) /\ polls < MaxPolls

StartCRBusy == CR(port)

StartPoll ==
    /\ pc = "start_cr"
    /\ IF StartCRBusy
       THEN pc' = "start_cr" /\ polls' = Min(polls + 1, MaxPolls)
       ELSE pc' = "start_fre" /\ polls' = polls
    /\ UNCHANGED <<other, hwVars, memVars, ret, locVars, ghostVars>>

\* the first write of start_cmd setting ST instead of FRE
StartSetSTFirst ==
    /\ pc = "start_fre"
    /\ regs' = StoreReg(regs, port, "cmd", SetBit(Cmd(port), BIT_ST))
    /\ pc' = "start_st"
    /\ UNCHANGED <<other, pi, piChanges, memVars, ret, locVars, ghostVars, polls>>

StartSetFRE ==
    /\ pc = "start_fre"
    /\ regs' = StoreReg(regs, port, "cmd", SetBit(Cmd(port), BIT_FRE))
    /\ pc' = "start_st"
    /\ UNCHANGED <<other, pi, piChanges, memVars, ret, locVars, ghostVars, polls>>

\* the second write of start_cmd as a plain assignment, port->cmd = 1
StartSetSTAssign ==
    /\ pc = "start_st"
    /\ regs' = StoreReg(regs, port, "cmd", Pow2(BIT_ST))
    /\ pc' = ret
    /\ UNCHANGED <<other, pi, piChanges, memVars, ret, locVars, ghostVars, polls>>

StartSetST ==
    /\ pc = "start_st"
    /\ regs' = StoreReg(regs, port, "cmd", SetBit(Cmd(port), BIT_ST))
    /\ pc' = ret
    /\ UNCHANGED <<other, pi, piChanges, memVars, ret, locVars, ghostVars, polls>>

(* ------------------------------------------------------------------ *)
(* port_rebase                                                         *)
(* ------------------------------------------------------------------ *)
\* the three base addresses port_rebase computes.  In the command-table
\* address the index is the inner loop's i (the slot), which shadows the
\* port index: the port p does not enter the value.
ClbAddr(p) == AHCI_BASE + Shl(p, 10)

\* the FIS base with the command-list stride
FbAddrWideStride(p) == AHCI_BASE + Shl(32, 10) + Shl(p, 10)

FbAddr(p) == AHCI_BASE + Shl(32, 10) + Shl(p, 8)

\* the same with the port index in the place of the slot index
CtbaAddrByPort(p, s) == AHCI_BASE + Shl(40, 10) + Shl(p, 13) + Shl(p, 8)

CtbaAddr(p, s) == AHCI_BASE + Shl(40, 10) + Shl(s, 13) + Shl(s, 8)

Region(k, p, s, a, n) == [kind |-> k, port |-> p, slot |-> s, addr |-> a, len |-> n]

HdrAddr(s) == cmd_header + s * HDR_SIZE

RebaseReadPi ==
    /\ pc = "reb_pi"
    /\ lpi' = pi
    /\ i' = 0
    /\ pc' = "reb_loop"
    /\ UNCHANGED <<other, hwVars, memVars, ret, port, slot, cmd_header, dt, ghostVars, polls>>

\* pi & 1 set: stop_cmd(port)
\* port_rebase going to its writes without the stop_cmd call
RebaseEnterNoStop ==
    /\ pc = "reb_loop"
    /\ i < NPORTS
    /\ LowBit(lpi)
    /\ port' = i
    /\ ret' = "reb_clb"
    /\ polls' = 0
    /\ pc' = "reb_clb"
    /\ UNCHANGED <<other, hwVars, memVars, i, lpi, slot, cmd_header, dt, ghostVars>>

RebaseEnter ==
    /\ pc = "reb_loop"
    /\ i < NPORTS
    /\ LowBit(lpi)
    /\ port' = i
    /\ ret' = "reb_clb"
    /\ polls' = 0
    /\ pc' = "stop_st"
    /\ UNCHANGED <<other, hwVars, memVars, i, lpi, slot, cmd_header, dt, ghostVars>>

\* pi & 1 clear: pi >>= 1, i++
RebaseSkip ==
    /\ pc = "reb_loop"
    /\ i < NPORTS
    /\ ~LowBit(lpi)
    /\ lpi' = ShrMask(lpi)
    /\ i' = i + 1
    /\ UNCHANGED <<other, hwVars, memVars, pc, ret, port, slot, cmd_header, dt, ghostVars, polls>>

RebaseExit ==
    /\ pc = "reb_loop"
    /\ i = NPORTS
    /\ pc' = "reb_ret"
    /\ UNCHANGED <<other, hwVars, memVars, ret, locVars, ghostVars, polls>>

ClbWrite ==
    /\ pc = "reb_clb"
    /\ regs' = StoreReg(regs, i, "clb", ClbAddr(i))
    /\ assigned' = assigned \cup {Region("clb", i, 0, ClbAddr(i), CLB_LEN)}
    /\ pc' = "reb_clbu"
    /\ UNCHANGED <<other, pi, piChanges, memVars, ret, locVars, log, visited, piRead, polls>>

ClbuWrite ==
    /\ pc = "reb_clbu"
    /\ regs' = StoreReg(regs, i, "clbu", 0)
    /\ pc' = "reb_clbz"
    /\ UNCHANGED <<other, pi, piChanges, memVars, ret, locVars, ghostVars, polls>>

\* memset((void *)&port->clb, 0, 1024): the destination is the address of
\* the register, not the address it holds
ClbMemset ==
    /\ pc = "reb_clbz"
    /\ regs' = MemsetRegs(regs, i, RegOff("clb"), CLB_LEN)
    /\ spill' = Max(spill, SpillOf(i, RegOff("clb"), CLB_LEN))
    /\ pc' = "reb_fb"
    /\ UNCHANGED <<other, pi, piChanges, mem, initFill, roRegs, ret, locVars, ghostVars, polls>>

FbWrite ==
    /\ pc = "reb_fb"
    /\ regs' = StoreReg(regs, i, "fb", FbAddr(i))
    /\ assigned' = assigned \cup {Region("fb", i, 0, FbAddr(i), FB_LEN)}
    /\ pc' = "reb_fbu"
    /\ UNCHANGED <<other, pi, piChanges, memVars, ret, locVars, log, visited, piRead, polls>>

FbuWrite ==
    /\ pc = "reb_fbu"
    /\ regs' = StoreReg(regs, i, "fbu", 0)
    /\ pc' = "reb_fbz"
    /\ UNCHANGED <<other, pi, piChanges, memVars, ret, locVars, ghostVars, polls>>

\* memset((void *)&port->fb, 0, 256)
FbMemset ==
    /\ pc = "reb_fbz"
    /\ regs' = MemsetRegs(regs, i, RegOff("fb"), FB_LEN)
    /\ spill' = Max(spill, SpillOf(i, RegOff("fb"), FB_LEN))
    /\ pc' = "reb_hdr"
    /\ UNCHANGED <<other, pi, piChanges, mem, initFill, roRegs, ret, locVars, ghostVars, polls>>

\* cmd_header = (hba_cmd_header_t *)(uint64_t)port->clb; inner i = 0
HdrPtr ==
    /\ pc = "reb_hdr"
    /\ cmd_header' = regs[i]["clb"]
    /\ slot' = 0
    /\ pc' = "hdr_prdtl"
    /\ UNCHANGED <<other, hwVars, memVars, ret, port, i, lpi, dt, ghostVars, polls>>

\* cmd_header is a null pointer: the first store through it may trap
HdrFault ==
    /\ pc = "hdr_prdtl"
    /\ slot = 0
    /\ cmd_header = 0
    /\ pc' = "fault"
    /\ UNCHANGED <<other, hwVars, memVars, ret, locVars, ghostVars, polls>>

HdrPrdtl ==
    /\ pc = "hdr_prdtl"
    /\ mem' = StoreHigh16(mem, HdrAddr(slot) + HDR_DW0, 8)
    /\ pc' = "hdr_ctba"
    /\ UNCHANGED <<other, hwVars, initFill, roRegs, spill, ret, locVars, ghostVars, polls>>

HdrCtba ==
    /\ pc = "hdr_ctba"
    /\ mem' = Store(mem, HdrAddr(slot) + HDR_CTBA, CtbaAddr(i, slot))
    /\ assigned' = assigned \cup {Region("ctba", i, slot, CtbaAddr(i, slot), CTB_LEN)}
    /\ pc' = "hdr_ctbau"
    /\ UNCHANGED <<other, hwVars, initFill, roRegs, spill, ret, locVars, log, visited, piRead, polls>>

HdrCtbau ==
    /\ pc = "hdr_ctbau"
    /\ mem' = Store(mem, HdrAddr(slot) + HDR_CTBAU, 0)
    /\ pc' = "hdr_ctbz"
    /\ UNCHANGED <<other, hwVars, initFill, roRegs, spill, ret, locVars, ghostVars, polls>>

\* memset((void *)&cmd_header[i].ctba, 0, 256), then i++ and the loop test;
\* behind the last slot: start_cmd(port)
HdrMemset ==
    /\ pc = "hdr_ctbz"
    /\ mem' = MemsetMem(mem, HdrAddr(slot) + HDR_CTBA, CTB_LEN)
    /\ slot' = slot + 1
    /\ IF slot + 1 < NSLOTS
       THEN pc' = "hdr_prdtl" /\ UNCHANGED <<other, ret, port, polls>>
       ELSE pc' = "start_cr" /\ ret' = "reb_next" /\ port' = i /\ polls' = 0
    /\ UNCHANGED <<other, hwVars, initFill, roRegs, spill, i, lpi, cmd_header, dt, ghostVars>>

\* start_cmd has returned: pi >>= 1, i++
RebaseNext ==
    /\ pc = "reb_next"
    /\ lpi' = ShrMask(lpi)
    /\ i' = i + 1
    /\ pc' = "reb_loop"
    /\ UNCHANGED <<other, hwVars, memVars, ret, port, slot, cmd_header, dt, ghostVars, polls>>

(* ------------------------------------------------------------------ *)
(* check_type                                                          *)
(* ------------------------------------------------------------------ *)
\* uint8_t ipm = (ssts >> 8) & 0x0F; uint8_t det = ssts & 0x0F
IpmOf(ssts) == (Shr(ssts, 8) % 16) % 256

DetOf(ssts) == (ssts % 16) % 256

\* check_type without the test of the power-management field
check_type_no_ipm(ssts, sig) ==
    IF DetOf(ssts) # HBA_PORT_DET_PRESENT THEN AHCI_DEV_NULL
    ELSE CASE sig = SATA_SIG_ATAPI -> AHCI_DEV_SATAPI
           [] sig = SATA_SIG_SEMB -> AHCI_DEV_SEMB
           [] sig = SATA_SIG_PM -> AHCI_DEV_PM
           [] OTHER -> AHCI_DEV_SATA

check_type(ssts, sig) ==
    IF DetOf(ssts) # HBA_PORT_DET_PRESENT THEN AHCI_DEV_NULL
    ELSE IF IpmOf(ssts) # HBA_PORT_IPM_ACTIVE THEN AHCI_DEV_NULL
    ELSE CASE sig = SATA_SIG_ATAPI -> AHCI_DEV_SATAPI
           [] sig = SATA_SIG_SEMB -> AHCI_DEV_SEMB
           [] sig = SATA_SIG_PM -> AHCI_DEV_PM
           [] OTHER -> AHCI_DEV_SATA

\* a call of check_type(&hba_addr->ports[port]) on its own
CheckTypeCall ==
    /\ pc = "ct_call"
    /\ dt' = check_type(regs[port]["ssts"], regs[port]["sig"])
    /\ pc' = "ct_ret"
    /\ UNCHANGED <<other, hwVars, memVars, ret, port, i, lpi, slot, cmd_header, ghostVars, polls>>

(* ------------------------------------------------------------------ *)
(* probe_port                                                          *)
(* ------------------------------------------------------------------ *)
Line(m, p) == [msg |-> m, port |-> p]

\* the same chain without its SATAPI branch
DeviceLineNoSatapi(t, p) ==
    CASE t = AHCI_DEV_SATA -> <<Line("SATA drive found", p)>>
      [] t = AHCI_DEV_SEMB -> <<Line("SEMB drive found", p)>>
      [] t = AHCI_DEV_PM -> <<Line("PM drive found", p)>>
      [] OTHER -> <<>>

\* the kprintf probe_port makes for a device type, if any
DeviceLine(t, p) ==
    CASE t = AHCI_DEV_SATA -> <<Line("SATA drive found", p)>>
      [] t = AHCI_DEV_SATAPI -> <<Line("SATAPI drive found", p)>>
      [] t = AHCI_DEV_SEMB -> <<Line("SEMB drive found", p)>>
      [] t = AHCI_DEV_PM -> <<Line("PM drive found", p)>>
      [] OTHER -> <<>>

ProbeReadPi ==
    /\ pc = "probe_pi"
    /\ lpi' = pi
    /\ piRead' = pi
    /\ i' = 0
    /\ visited' = <<>>
    /\ pc' = "probe_loop"
    /\ UNCHANGED <<other, hwVars, memVars, ret, port, slot, cmd_header, dt, log, assigned, polls>>

\* the test of the sweep: the lowest bit of the local copy
ProbeBitOfRegister == i \in pi

ProbeBit == LowBit(lpi)

\* bit set: dt = check_type(&hba_addr->ports[i])
ProbeCheck ==
    /\ pc = "probe_loop"
    /\ i < NPORTS
    /\ ProbeBit
    /\ port' = i
    /\ dt' = check_type(regs[i]["ssts"], regs[i]["sig"])
    /\ visited' = Append(visited, i)
    /\ pc' = "probe_log"
    /\ UNCHANGED <<other, hwVars, memVars, ret, i, lpi, slot, cmd_header, log, piRead, assigned, polls>>

\* the if/else chain over dt, then pi >>= 1, i++
ProbeLog ==
    /\ pc = "probe_log"
    /\ log' = log \o DeviceLine(dt, i)
    /\ lpi' = ShrMask(lpi)
    /\ i' = i + 1
    /\ pc' = "probe_loop"
    /\ UNCHANGED <<other, hwVars, memVars, ret, port, slot, cmd_header, dt, visited, piRead, assigned, polls>>

ProbeSkip ==
    /\ pc = "probe_loop"
    /\ i < NPORTS
    /\ ~ProbeBit
    /\ lpi' = ShrMask(lpi)
    /\ i' = i + 1
    /\ UNCHANGED <<other, hwVars, memVars, pc, ret, port, slot, cmd_header, dt, ghostVars, polls>>

ProbeExit ==
    /\ pc = "probe_loop"
    /\ i = NPORTS
    /\ pc' = "probe_ret"
    /\ UNCHANGED <<other, hwVars, memVars, ret, locVars, ghostVars, polls>>

\* the environment rewrites the ports-implemented register
HwPiChange ==
    /\ piChanges < MaxPiChanges
    /\ pi' \in Masks \ {pi}
    /\ piChanges' = piChanges + 1
    /\ UNCHANGED <<other, regs, memVars, pc, ret, locVars, ghostVars, polls>>

(* ------------------------------------------------------------------ *)
(* init_ahci                                                           *)
(* ------------------------------------------------------------------ *)
\* init_ahci calling probe_port first
LogAbarThenProbe ==
    /\ pc = "init"
    /\ log' = Append(log, Line("ABAR, reconfiguring AHCI memory", -1))
    /\ pc' = "probe_pi"
    /\ UNCHANGED <<other, hwVars, memVars, ret, locVars, visited, piRead, assigned, polls>>

LogAbar ==
    /\ pc = "init"
    /\ log' = Append(log, Line("ABAR, reconfiguring AHCI memory", -1))
    /\ pc' = "reb_pi"
    /\ UNCHANGED <<other, hwVars, memVars, ret, locVars, visited, piRead, assigned, polls>>

LogConfigured ==
    /\ pc = "reb_ret"
    /\ log' = Append(log, Line("AHCI memory spaces configured, enumerating devices", -1))
    /\ pc' = "probe_pi"
    /\ UNCHANGED <<other, hwVars, memVars, ret, locVars, visited, piRead, assigned, polls>>

LogCompleted ==
    /\ pc = "probe_ret"
    /\ log' = Append(log, Line("drive enumeration completed", -1))
    /\ pc' = "done"
    /\ UNCHANGED <<other, hwVars, memVars, ret, locVars, visited, piRead, assigned, polls>>

(* ------------------------------------------------------------------ *)
(* Initial states                                                      *)
(* ------------------------------------------------------------------ *)
\* PxCMD as firmware leaves it: spin-up and power-on set (bits 1 and 2), the
\* engine idle, or running with ST, FRE, FR and CR set
CmdIdle == Pow2(1) + Pow2(2)

CmdRunning == CmdIdle + Pow2(BIT_ST) + Pow2(BIT_FRE) + Pow2(BIT_FR) + Pow2(BIT_CR)

\* every combination of ST, FRE, FR and CR over the idle value
EngineCmds ==
    {CmdIdle + a * Pow2(BIT_ST) + b * Pow2(BIT_FRE) + c * Pow2(BIT_FR) + d * Pow2(BIT_CR) :
        a \in {0, 1}, b \in {0, 1}, c \in {0, 1}, d \in {0, 1}}

\* ssts with det = 3, spd = 2, ipm = 1: a device is present and the link active
SstsPresent == 3 + 2 * 16 + 1 * 256

Dev(ssts, sig) == [ssts |-> ssts, sig |-> sig]

\* no device: ssts 0, sig 0xFFFFFFFF
NoDevice == Dev(0, -1)

\* what is attached to the ports of the full bring-up: a SATA drive on port 0,
\* a SATAPI drive on port 2, nothing behind the other ports
BringUpDevice(p) ==
    CASE p = 0 -> Dev(SstsPresent, SATA_SIG_ATA)
      [] p = 2 -> Dev(SstsPresent, SATA_SIG_ATAPI)
      [] OTHER -> NoDevice

\* the devices probe_port is run against
Profiles ==
    {Dev(SstsPresent, SATA_SIG_ATA), Dev(SstsPresent, SATA_SIG_ATAPI),
     Dev(SstsPresent, SATA_SIG_SEMB), Dev(SstsPresent, SATA_SIG_PM),
     Dev(SstsPresent, 0), Dev(SstsPresent - 3, SATA_SIG_ATA),
     Dev(SstsPresent + 256, SATA_SIG_ATAPI)}

\* the register block before bring-up: base registers as firmware set them
RegsOf(cmdOf, devOf) ==
    [p \in Ports |->
        [n \in RegNames |->
            CASE n = "clb" -> 983040 + p * 1024
              [] n = "clbu" -> 0
              [] n = "fb" -> 1015808 + p * 256
              [] n = "fbu" -> 0
              [] n = "cmd" -> cmdOf[p]
              [] n = "sig" -> devOf[p].sig
              [] n = "ssts" -> devOf[p].ssts]]

CmdChoices(mask) ==
    {[p \in Ports |-> IF p \in Implemented(mask) THEN f[p] ELSE 0] :
        f \in [Implemented(mask) -> {CmdIdle, CmdRunning}]}

DevChoices(mask) ==
    {[p \in Ports |-> IF p \in Implemented(mask) THEN f[p] ELSE NoDevice] :
        f \in [Implemented(mask) -> Profiles]}

\* the locals of a caller: its position and the variables of its frames
Context(c, r, p, k, l, s, h, t, n) ==
    [pc |-> c, ret |-> r, port |-> p, i |-> k, lpi |-> l, slot |-> s,
     cmd_header |-> h, dt |-> t, polls |-> n]

\* there is no second caller
NoCaller == Context("absent", "none", 0, 0, {}, 0, 0, 0, 0)

InitLocals ==
    /\ spill = 0
    /\ i = 0
    /\ lpi = {}
    /\ slot = 0
    /\ cmd_header = 0
    /\ dt = 0
    /\ log = <<>>
    /\ visited = <<>>
    /\ piRead = {}
    /\ assigned = {}
    /\ piChanges = 0
    /\ polls = 0
    /\ mem = [x \in {} |-> 0]
    /\ other = NoCaller

\* init_ahci is entered
Init ==
    /\ pi \in Masks
    /\ regs \in {RegsOf(c, [p \in Ports |-> BringUpDevice(p)]) : c \in CmdChoices(pi)}
    /\ initFill \in {0, 631612837}
    /\ roRegs \in BOOLEAN
    /\ pc = "init"
    /\ ret = "none"
    /\ port = 0
    /\ InitLocals

\* probe_port is entered
InitProbe ==
    /\ pi \in Masks
    /\ regs \in {RegsOf([p \in Ports |-> CmdIdle], d) : d \in DevChoices(pi)}
    /\ initFill = 0
    /\ roRegs = TRUE
    /\ pc = "probe_pi"
    /\ ret = "none"
    /\ port = 0
    /\ InitLocals

\* check_type is entered for one port with any status and signature
InitClassify ==
    /\ pi = {}
    /\ port \in MaskBits
    /\ \E det \in 0 .. 15, spd \in {0, 2}, ipm \in 0 .. 15, hi \in {0, 1},
          sig \in {SATA_SIG_ATA, SATA_SIG_ATAPI, SATA_SIG_SEMB, SATA_SIG_PM, 0, -1} :
          regs = RegsOf([p \in Ports |-> CmdIdle],
                        [p \in Ports |-> IF p = port
                                         THEN Dev(det + spd * 16 + ipm * 256 + hi * 4096, sig)
                                         ELSE NoDevice])
    /\ initFill = 0
    /\ roRegs = TRUE
    /\ pc = "ct_call"
    /\ ret = "none"
    /\ InitLocals

\* stop_cmd is entered on a port in any engine state, or start_cmd on a port
\* whose start bit is clear
InitEngine ==
    /\ pi = {}
    /\ port \in MaskBits
    /\ \E c \in EngineCmds :
          regs = RegsOf([p \in Ports |-> IF p = port THEN c ELSE CmdIdle],
                        [p \in Ports |-> NoDevice])
    /\ initFill = 0
    /\ roRegs \in BOOLEAN
    /\ \/ pc = "stop_st" /\ ret = "stopped"
       \/ pc = "start_cr" /\ ret = "started" /\ ~ST(port)
    /\ InitLocals

\* the caller's next call: start_cmd on the stopped port, stop_cmd on the started
CallStart ==
    /\ pc = "stopped"
    /\ pc' = "start_cr"
    /\ ret' = "started"
    /\ polls' = 0
    /\ UNCHANGED <<other, hwVars, memVars, locVars, ghostVars>>

CallStop ==
    /\ pc = "started"
    /\ pc' = "stop_st"
    /\ ret' = "stopped"
    /\ polls' = 0
    /\ UNCHANGED <<other, hwVars, memVars, locVars, ghostVars>>

(* ------------------------------------------------------------------ *)
(* Specifications                                                      *)
(* ------------------------------------------------------------------ *)
Hardware ==
    \E p \in Ports : HwClearFR(p) \/ HwClearCR(p) \/ HwSetFR(p) \/ HwSetCR(p)

StopCmd == StopClearST \/ StopClearFRE \/ StopPollFR \/ StopPollCR

StartCmd == StartPoll \/ StartSetFRE \/ StartSetST

PortRebase ==
    \/ RebaseReadPi \/ RebaseEnter \/ RebaseSkip \/ RebaseExit
    \/ ClbWrite \/ ClbuWrite \/ ClbMemset
    \/ FbWrite \/ FbuWrite \/ FbMemset
    \/ HdrPtr \/ HdrFault \/ HdrPrdtl \/ HdrCtba \/ HdrCtbau \/ HdrMemset
    \/ RebaseNext

ProbePort == ProbeReadPi \/ ProbeCheck \/ ProbeLog \/ ProbeSkip \/ ProbeExit

Next ==
    \/ LogAbar \/ LogConfigured \/ LogCompleted
    \/ PortRebase \/ StopCmd \/ StartCmd \/ ProbePort
    \/ Hardware

Spec == Init /\ [][Next]_vars

NextProbe == ProbePort \/ HwPiChange

SpecProbe == InitProbe /\ [][NextProbe]_vars

NextClassify == CheckTypeCall

SpecClassify == InitClassify /\ [][NextClassify]_vars

NextEngine == StopCmd \/ StartCmd \/ CallStart \/ CallStop \/ Hardware

SpecEngine == InitEngine /\ [][NextEngine]_vars

(* ------------------------------------------------------------------ *)
(* Vocabulary of the properties                                        *)
(* ------------------------------------------------------------------ *)
EngineStopped(q) == ~ST(q) /\ ~FRE(q) /\ ~FR(q) /\ ~CR(q)

Disjoint(a1, n1, a2, n2) == a1 + n1 <= a2 \/ a2 + n2 <= a1

\* every byte of the n bytes of memory at a reads as zero
ReadsZero(a, n) == \A k \in 0 .. ((n \div 4) - 1) : Load(mem, a + 4 * k) = 0

\* the dword addresses an action has written (a store of the value already
\* there is not seen)
Written == {a \in DOMAIN mem' : a \notin DOMAIN mem \/ mem'[a] # mem[a]}

BaseRegs == {"clb", "clbu", "fb", "fbu"}

RECURSIVE AscSeq(_)
AscSeq(S) == IF S = {} THEN <<>>
             ELSE LET m == CHOOSE x \in S : \A y \in S : x <= y
                  IN <<m>> \o AscSeq(S \ {m})

InRebaseStart == pc \in StartPcs /\ ret = "reb_next"

(* ------------------------------------------------------------------ *)
(* C1.  In port_rebase the memory set-up of a port lies between its    *)
(* stop and its start: no base-address register of an implemented port *)
(* and no dword of the command list its clb register names is written  *)
(* while that port's engine is not fully stopped (ST, FRE, FR or CR    *)
(* set), and start_cmd is entered for a port only when all 32 of its   *)
(* command-header slots have been written.                             *)
(* ------------------------------------------------------------------ *)
C1_WritesOnlyWhileStopped ==
    /\ [][\A q \in Implemented(pi) :
            (\/ \E n \in BaseRegs : regs'[q][n] # regs[q][n]
             \/ \E a \in Written : a >= regs[q]["clb"] /\ a < regs[q]["clb"] + CLB_LEN)
            => EngineStopped(q)]_vars
    /\ [](InRebaseStart => slot = NSLOTS)

(* ------------------------------------------------------------------ *)
(* C2.  Whenever stop_cmd has returned, FR (bit 14) and CR (bit 15) of *)
(* the port's cmd register are both clear.                             *)
(* ------------------------------------------------------------------ *)
C2_StopReturnsIdle ==
    pc \in {"stopped", "reb_clb"} => ~FR(port) /\ ~CR(port)

\* stop_cmd has returned after it had to poll at least once
C2_Witness == pc = "stopped" /\ polls >= 1 /\ ~FR(port) /\ ~CR(port)

(* ------------------------------------------------------------------ *)
(* C3.  At each of the two writes of start_cmd (FRE, then ST) CR       *)
(* (bit 15) of the port's cmd register is clear.                       *)
(* ------------------------------------------------------------------ *)
C3_StartWritesWithCRClear ==
    pc \in {"start_fre", "start_st"} => ~CR(port)

\* start_cmd is about to set ST after it had to wait for CR
C3_Witness == pc = "start_st" /\ polls >= 1 /\ FRE(port) /\ ~ST(port)

(* ------------------------------------------------------------------ *)
(* C4.  The address ranges port_rebase computes for two distinct       *)
(* implemented ports (command list, FIS area, command tables) do not   *)
(* overlap.                                                            *)
(* ------------------------------------------------------------------ *)
C4_PortsDisjoint ==
    \A r1 \in assigned : \A r2 \in assigned :
        r1.port # r2.port => Disjoint(r1.addr, r1.len, r2.addr, r2.len)

(* ------------------------------------------------------------------ *)
(* C5.  Within one port the command headers receive pairwise distinct  *)
(* command-table base addresses with pairwise non-overlapping 256-byte *)
(* ranges: each header's ctba field holds the computed address right   *)
(* after the store, and behind the inner loop there are 32 of them.    *)
(* ------------------------------------------------------------------ *)
Tables(p) == {r \in assigned : r.kind = "ctba" /\ r.port = p}

C6_BaseRegisters ==
    pc = "reb_ret" =>
        \A p \in Implemented(pi) :
            /\ regs[p]["clb"] = AHCI_BASE + p * 1024
            /\ regs[p]["fb"] = AHCI_BASE + 32 * 1024 + p * 256
            /\ regs[p]["clbu"] = 0
            /\ regs[p]["fbu"] = 0

(* ------------------------------------------------------------------ *)
(* C7.  After port_rebase has returned, every byte of the command-list *)
(* region, the FIS region and the 32 command-table regions assigned to *)
(* each implemented port reads as zero.                                *)
(* ------------------------------------------------------------------ *)
C7_RegionsZero ==
    pc = "reb_ret" => \A r \in assigned : ReadsZero(r.addr, r.len)

(* ------------------------------------------------------------------ *)
(* C8.  After port_rebase has returned, prdtl of each of the 32        *)
(* command headers in the command list of every implemented port       *)
(* (at AHCI_BASE + i * 1 KiB) is 8.                                    *)
(* ------------------------------------------------------------------ *)
C8_PrdtlEight ==
    pc = "reb_ret" =>
        \A r \in assigned : r.kind = "clb" =>
            \A s \in Slots : Shr(Load(mem, r.addr + s * HDR_SIZE + HDR_DW0), 16) = 8

(* ------------------------------------------------------------------ *)
(* C9.  probe_port classifies exactly the ports whose bit is 1 in the  *)
(* mask it copied at entry, in ascending order, each once, whatever    *)
(* becomes of the pi register during the sweep.                        *)
(* ------------------------------------------------------------------ *)
C9_VisitsMaskBits ==
    pc \in {"probe_loop", "probe_log", "probe_ret"} =>
        visited = AscSeq({b \in piRead : b < i} \cup (IF pc = "probe_log" THEN {i} ELSE {}))

\* a finished sweep over several ports during which pi was rewritten
C9_Witness ==
    /\ pc = "probe_ret"
    /\ i = NPORTS
    /\ pi # piRead
    /\ Len(visited) >= 2
    /\ visited = AscSeq(piRead)

(* ------------------------------------------------------------------ *)
(* C10.  check_type is the reference classifier: Absent unless the     *)
(* detection field (ssts bits 0-3) is 3 and the power field (bits      *)
(* 8-11) is 1; then SATAPI, enclosure bridge or port multiplier by     *)
(* signature and SATA drive for every other signature; the result is   *)
(* one of the five device types and no register is written.            *)
(* ------------------------------------------------------------------ *)
Reference(det, ipm, sig) ==
    IF det # 3 \/ ipm # 1 THEN 0
    ELSE IF sig = SATA_SIG_ATAPI THEN 4
    ELSE IF sig = SATA_SIG_SEMB THEN 2
    ELSE IF sig = SATA_SIG_PM THEN 3
    ELSE 1

C10_ClassifierTable ==
    /\ [](pc = "ct_ret" =>
            /\ dt = Reference(regs[port]["ssts"] % 16,
                              (regs[port]["ssts"] \div 256) % 16,
                              regs[port]["sig"])
            /\ dt \in 0 .. 4)
    /\ [][regs' = regs /\ pi' = pi]_vars

\* a present, active port with an unknown signature was classified a SATA drive
C10_Witness ==
    /\ pc = "ct_ret"
    /\ regs[port]["ssts"] % 16 = 3
    /\ (regs[port]["ssts"] \div 256) % 16 = 1
    /\ regs[port]["sig"] = -1
    /\ dt = AHCI_DEV_SATA

(* ------------------------------------------------------------------ *)
(* C11.  probe_port prints exactly one line, naming the device type    *)
(* and the port index, for each port of the copied mask that does not  *)
(* classify as Absent, in ascending port order, and no line for a port *)
(* whose mask bit is clear or that classifies as Absent.               *)
(* ------------------------------------------------------------------ *)
TypeOfPort(p) ==
    Reference(regs[p]["ssts"] % 16, (regs[p]["ssts"] \div 256) % 16, regs[p]["sig"])

TypeName(t) ==
    CASE t = 1 -> "SATA drive found"
      [] t = 4 -> "SATAPI drive found"
      [] t = 2 -> "SEMB drive found"
      [] t = 3 -> "PM drive found"

RECURSIVE ExpectedLines(_)
ExpectedLines(S) ==
    IF S = {} THEN <<>>
    ELSE LET m == CHOOSE x \in S : \A y \in S : x <= y
         IN (IF TypeOfPort(m) = 0 THEN <<>> ELSE <<[msg |-> TypeName(TypeOfPort(m)), port |-> m]>>)
            \o ExpectedLines(S \ {m})

C11_OneLinePerDevice ==
    pc \in {"probe_loop", "probe_ret"} => log = ExpectedLines({b \in piRead : b < i})

\* mask 0b101 plus port 31: a SATA drive on port 0, a SATAPI drive on port 2,
\* port 31 implemented but with nothing detected
C11_Witness ==
    /\ pc = "probe_ret"
    /\ piRead = {0, 2, 31}
    /\ TypeOfPort(31) = 0
    /\ log = <<[msg |-> "SATA drive found", port |-> 0],
               [msg |-> "SATAPI drive found", port |-> 2]>>

(* ------------------------------------------------------------------ *)
(* C12.  start_cmd sets FRE before ST: before its second write FRE is  *)
(* set and ST still clear, and ST is never set while FRE is clear.     *)
(* stop_cmd clears ST before FRE: before its second write ST is clear, *)
(* and FRE is never cleared while ST is set.                           *)
(* ------------------------------------------------------------------ *)
C12_WriteOrder ==
    /\ [](pc = "start_st" => FRE(port) /\ ~ST(port))
    /\ [](pc = "stop_fre" => ~ST(port))
    /\ [][(~ST(port) /\ ST(port)') => FRE(port)]_vars
    /\ [][(FRE(port) /\ ~FRE(port)') => ~ST(port)]_vars

\* stop_cmd between its two writes: ST cleared, FRE not yet cleared
C12_Witness == pc = "stop_fre" /\ ~ST(port) /\ FRE(port) /\ ret = "stopped"

(* ------------------------------------------------------------------ *)
(* C13.  init_ahci leaves every register of every port whose bit in    *)
(* the ports-implemented mask is 0 as it found it.                     *)
(* ------------------------------------------------------------------ *)
C13_UnimplementedUntouched ==
    [][\A q \in Ports \ pi : regs'[q] = regs[q]]_vars

(* ------------------------------------------------------------------ *)
(* C14.  init_ahci is a linear sequence: the base-address line, then   *)
(* port_rebase, then the memory-configured line, then probe_port with  *)
(* its device lines, then the enumeration-completed line.  No port is  *)
(* classified and no device line printed before port_rebase has        *)
(* restarted the engine of every implemented port, the last included.  *)
(* ------------------------------------------------------------------ *)
ProbePcs == {"probe_pi", "probe_loop", "probe_log", "probe_ret"}

AbarLine == [msg |-> "ABAR, reconfiguring AHCI memory", port |-> -1]

ConfiguredLine == [msg |-> "AHCI memory spaces configured, enumerating devices", port |-> -1]

CompletedLine == [msg |-> "drive enumeration completed", port |-> -1]

IsDeviceLine(l) == l.port \in Ports

C14_LinearSequence ==
    /\ pc = "init" => log = <<>> /\ visited = <<>>
    /\ pc \notin {"init", "done"} \cup ProbePcs => log = <<AbarLine>> /\ visited = <<>>
    /\ pc \in ProbePcs =>
          /\ Len(log) >= 2
          /\ log[1] = AbarLine
          /\ log[2] = ConfiguredLine
          /\ \A k \in 3..Len(log) : IsDeviceLine(log[k])
    /\ pc = "done" =>
          /\ Len(log) >= 3
          /\ log[1] = AbarLine
          /\ log[2] = ConfiguredLine
          /\ \A k \in 3..(Len(log) - 1) : IsDeviceLine(log[k])
          /\ log[Len(log)] = CompletedLine
    /\ (visited # <<>> \/ \E k \in 1..Len(log) : IsDeviceLine(log[k])) =>
          \A p \in Implemented(pi) : ST(p) /\ FRE(p)

\* the whole of init_ahci on mask 0b101 with a drive on each port
C14_Witness ==
    /\ pc = "done"
    /\ pi = {0, 2}
    /\ Len(log) = 5
    /\ IsDeviceLine(log[3]) /\ IsDeviceLine(log[4])

(* ------------------------------------------------------------------ *)
(* C15.  The polls have no timeout.  While CR is set, start_cmd stays  *)
(* in its poll however many reads it has made, and it leaves the poll  *)
(* only on a read that finds CR clear; stop_cmd stays in its loop      *)
(* while FR or CR is set and returns only on a read that finds CR      *)
(* clear after one that found FR clear.  A call never finishes on a    *)
(* bit that is still set.                                              *)
(* ------------------------------------------------------------------ *)
C15_NoTimeout ==
    /\ [][(pc = "start_cr" /\ CR(port)) => pc' = "start_cr"]_vars
    /\ [][(pc = "stop_fr" /\ FR(port)) => pc' = "stop_fr"]_vars
    /\ [][(pc = "stop_cr" /\ CR(port)) => pc' \in {"stop_cr", "stop_fr"}]_vars
    /\ [][(pc \in {"stop_fr", "stop_cr"} /\ pc' = "stopped") => pc = "stop_cr" /\ ~CR(port)]_vars

\* start_cmd still polling a set CR after the largest counted number of reads
C15_Witness == pc = "start_cr" /\ CR(port) /\ polls = MaxPolls

(* ------------------------------------------------------------------ *)
(* init_ahci as a fair process on a fair adapter: the program takes    *)
(* its next step whenever it has one, and the adapter eventually       *)
(* clears FR once FRE is clear and CR once ST is clear.                *)
(* ------------------------------------------------------------------ *)
Program ==
    \/ LogAbar
    \/ LogConfigured
    \/ LogCompleted
    \/ PortRebase
    \/ StopCmd
    \/ StartCmd
    \/ ProbePort

SpecFair ==
    /\ Init
    /\ [][Next]_vars
    /\ WF_vars(Program)
    /\ \A p \in Ports : WF_vars(HwClearFR(p)) /\ WF_vars(HwClearCR(p))

C18_AllRestarted ==
    pc = "reb_ret" => \A p \in Implemented(pi) : ST(p) /\ FRE(p)

\* three implemented ports, each within reach of an earlier port's memset or not
C18_Witness ==
    /\ pc = "reb_ret"
    /\ pi = {0, 2, 31}
    /\ \A p \in pi : ST(p) /\ FRE(p)

(* ------------------------------------------------------------------ *)
(* C19.  start_cmd and stop_cmd change only bits 0 (ST) and 4 (FRE) of *)
(* the port's cmd: no step changes another register of this or another *)
(* port, the mask, memory, or a cmd bit other than ST, FRE and the     *)
(* adapter's own FR and CR, and no program step changes FR or CR.      *)
(* ------------------------------------------------------------------ *)
SoftwareBits(c) == ClrBit(ClrBit(ClrBit(ClrBit(c, 0), 4), 14), 15)

C19_OnlySTandFRE ==
    /\ [][/\ pi' = pi
          /\ mem' = mem
          /\ \A q \in Ports, n \in RegNames :
                (q # port \/ n # "cmd") => regs'[q][n] = regs[q][n]
          /\ SoftwareBits(Cmd(port)') = SoftwareBits(Cmd(port))]_vars
    /\ [][pc' # pc => (FR(port)' = FR(port) /\ CR(port)' = CR(port))]_vars

\* start_cmd has returned on a port whose cmd had bits 1 and 2 set
C19_Witness ==
    /\ pc = "started"
    /\ ST(port) /\ FRE(port)
    /\ Bit(Cmd(port), 1) = 1 /\ Bit(Cmd(port), 2) = 1

(* ------------------------------------------------------------------ *)
(* The address computations of port_rebase for any port and slot       *)
(* ------------------------------------------------------------------ *)
InitLayout ==
    /\ pi = {}
    /\ regs = RegsOf([p \in Ports |-> CmdIdle], [p \in Ports |-> NoDevice])
    /\ initFill = 0
    /\ roRegs = TRUE
    /\ pc = "layout"
    /\ ret = "none"
    /\ port = 0
    /\ spill = 0
    /\ i \in Ports
    /\ lpi = {}
    /\ slot \in Slots
    /\ cmd_header = 0
    /\ dt = 0
    /\ log = <<>>
    /\ visited = <<>>
    /\ piRead = {}
    /\ assigned = {}
    /\ piChanges = 0
    /\ polls = 0
    /\ mem = [x \in {} |-> 0]
    /\ other = NoCaller

LayoutCompute ==
    /\ pc = "layout"
    /\ assigned' = {Region("clb", i, 0, ClbAddr(i), CLB_LEN),
                    Region("fb", i, 0, FbAddr(i), FB_LEN),
                    Region("ctba", i, slot, CtbaAddr(i, slot), CTB_LEN)}
    /\ pc' = "layout_done"
    /\ UNCHANGED <<other, hwVars, memVars, ret, locVars, log, visited, piRead, polls>>

NextLayout == LayoutCompute

SpecLayout == InitLayout /\ [][NextLayout]_vars

(* ------------------------------------------------------------------ *)
(* C20.  For every port 0..31 and slot 0..31 each region port_rebase   *)
(* computes lies inside [AHCI_BASE, AHCI_BASE + 32 * (1 KiB + 256 B +  *)
(* 32 * 256 B)); command lists, FIS areas and command tables lie in    *)
(* three consecutive bands of it, so the kinds are mutually disjoint;  *)
(* and no sum exceeds 32 bits.                                         *)
(* ------------------------------------------------------------------ *)
ScratchEnd == AHCI_BASE + 32 * (1024 + 256 + 32 * 256)

BandStart(k) ==
    CASE k = "clb" -> AHCI_BASE
      [] k = "fb" -> AHCI_BASE + 32 * 1024
      [] k = "ctba" -> AHCI_BASE + 32 * 1024 + 32 * 256

BandEnd(k) ==
    CASE k = "clb" -> BandStart("fb")
      [] k = "fb" -> BandStart("ctba")
      [] k = "ctba" -> ScratchEnd

C20_InsideScratch ==
    /\ pc = "layout_done" => {r.kind : r \in assigned} = {"clb", "fb", "ctba"}
    /\ \A r \in assigned :
          /\ AHCI_BASE <= r.addr
          /\ r.addr + r.len <= ScratchEnd
          /\ BandStart(r.kind) <= r.addr
          /\ r.addr + r.len <= BandEnd(r.kind)
          /\ r.addr + r.len <= 2147483647

\* the last slot of the last port: its command table ends at the end of the area
C20_Witness ==
    /\ pc = "layout_done"
    /\ i = 31 /\ slot = 31
    /\ \E r \in assigned : r.kind = "ctba" /\ r.addr + r.len = ScratchEnd

(* ------------------------------------------------------------------ *)
(* port_rebase entered by one caller, or by two callers on the same    *)
(* adapter whose statements interleave in any order                    *)
(* ------------------------------------------------------------------ *)
TwoCallerMasks == {{0}}

InitTwo ==
    /\ other \in {NoCaller, Context("reb_pi", "none", 0, 0, {}, 0, 0, 0, 0)}
    /\ pi \in IF other = NoCaller THEN Masks ELSE TwoCallerMasks
    /\ regs \in {RegsOf(c, [p \in Ports |-> BringUpDevice(p)]) : c \in CmdChoices(pi)}
    /\ initFill = 0
    /\ roRegs \in BOOLEAN
    /\ pc = "reb_pi"
    /\ ret = "none"
    /\ port = 0
    /\ spill = 0
    /\ i = 0
    /\ lpi = {}
    /\ slot = 0
    /\ cmd_header = 0
    /\ dt = 0
    /\ log = <<>>
    /\ visited = <<>>
    /\ piRead = {}
    /\ assigned = {}
    /\ piChanges = 0
    /\ polls = 0
    /\ mem = [x \in {} |-> 0]

\* where the model lets the two callers change places: at the entry of
\* port_rebase, behind its stop_cmd call, behind its start_cmd call and at its
\* return.  Callers on the adapter can interleave at every statement; every
\* state reached with these points is reached there too.
PreemptPcs == {"reb_pi", "reb_clb", "reb_next", "reb_ret"}

\* the running caller is suspended and the other one runs on
Switch ==
    /\ other.pc # "absent"
    /\ pc \in PreemptPcs
    /\ other' = Context(pc, ret, port, i, lpi, slot, cmd_header, dt, polls)
    /\ pc' = other.pc
    /\ ret' = other.ret
    /\ port' = other.port
    /\ i' = other.i
    /\ lpi' = other.lpi
    /\ slot' = other.slot
    /\ cmd_header' = other.cmd_header
    /\ dt' = other.dt
    /\ polls' = other.polls
    /\ UNCHANGED <<hwVars, memVars, ghostVars>>

NextTwo == PortRebase \/ StopCmd \/ StartCmd \/ Hardware \/ Switch

SpecTwo == InitTwo /\ [][NextTwo]_vars

(* ------------------------------------------------------------------ *)
(* C17.  With a single caller, port_rebase never stands at a write of  *)
(* a port's base registers or command headers while that port's start  *)
(* bit is set.  With two callers such a state is reachable: one caller *)
(* stands at such a write after the other has set the start bit.       *)
(* ------------------------------------------------------------------ *)
WritePcs ==
    {"reb_clb", "reb_clbu", "reb_clbz", "reb_fb", "reb_fbu", "reb_fbz",
     "reb_hdr", "hdr_prdtl", "hdr_ctba", "hdr_ctbau", "hdr_ctbz"}

C17_SingleCallerSafe ==
    other = NoCaller => (pc \in WritePcs => ~ST(i))

\* the running caller is about to write clb of a port that it stopped and
\* that the other caller, now behind its start_cmd, has started again
C17_Witness ==
    /\ other.pc \in {"reb_next", "reb_loop", "reb_ret"}
    /\ pc = "reb_clb"
    /\ ST(i)

====
